---- MODULE Spec2Model ----
(***************************************************************************)
(* The Execution Console of src/src/App.tsx: the React state of App, the   *)
(* asynchronous Pyodide bootstrap started at mount (initPyodide), the run  *)
(* handler (handleRunCode) with its two execution strategies, and the      *)
(* language switch (handleLanguageChange).                                 *)
(*                                                                         *)
(* Strings the handler composes are sequences of atoms; an atom is either  *)
(* a whitespace character (" ", "\n") or a piece of text that neither      *)
(* starts nor ends with whitespace, so that String.prototype.trim is exact *)
(* on them.  Literals that are never trimmed are kept as one atom.         *)
(***************************************************************************)
EXTENDS Integers, Sequences, FiniteSets, TLC

VARIABLES code, language, output, pyodide, isLoading,
          bootPc, bootAttempts, bootResult,
          consoleLog, pyStdout, runs, lastRun, lastEvent

vars == <<code, language, output, pyodide, isLoading,
          bootPc, bootAttempts, bootResult,
          consoleLog, pyStdout, runs, lastRun, lastEvent>>

\* ------------------------------------------------------------------ bounds

\* Invocations of the run handler in one session.
MaxRuns == 3

\* Logging calls (console.log / print) one source text makes.
MaxLines == 2

\* ------------------------------------------------- values of the program

Languages == {"javascript", "python"}

\* useState<any>(null): the runtime handle is absent.
NoHandle == "null"

\* The instance loadPyodide resolves to.
PyodideInstance == "pyodideInstance"

\* console.log as the browser provides it; a capture override installed by
\* run k is the closure k (k >= 1).
NativeLog == 0

\* sys.__stdout__ of the VM; sys.stdout is this or a StringIO.
OrigStdout == [target |-> "__stdout__", owner |-> 0, text |-> <<>>]

JsPlaceholderText == "// Start coding here..."

PyPlaceholderText == "# Start coding here..."

WaitingMessage == <<"Python runtime is not ready yet. Please wait...">>

UnknownErrorMessage == <<"An unknown error occurred">>

ErrorPrefix == <<"Error: ">>

ResultMarker == <<"\n", "=>", " ">>

\* ------------------------------------------------------ source texts

\* Arguments of a logging call: a primitive has its default string form, an
\* object also a JSON.stringify(arg, null, 2) form.
ArgHi == [type |-> "string", str |-> <<"hi">>, json |-> <<"\"hi\"">>]

ArgOne == [type |-> "number", str |-> <<"1">>, json |-> <<"1">>]

ArgObj == [type |-> "object", str |-> <<"[object", " ", "Object]">>, json |-> <<"{}">>]

\* The i-th logging call a source text makes.
CallAt(i) == IF i % 2 = 1 THEN <<ArgHi>> ELSE <<ArgOne, ArgObj>>

\* How a source text ends: it returns nothing, returns a value with a string
\* form, returns a value that implicit string conversion rejects (a Symbol),
\* throws an Error object, or throws a value that is no Error (a string).
EndKinds == {"undefined", "value", "symbol", "throwError", "throwValue"}

UserPrograms ==
    { [src |-> "user", calls |-> [i \in 1..n |-> CallAt(i)], end |-> e] :
        n \in 0..MaxLines, e \in EndKinds }

Placeholder(lang) ==
    [src |-> IF lang = "python" THEN PyPlaceholderText ELSE JsPlaceholderText,
     calls |-> <<>>, end |-> "undefined"]

SourceTexts == UserPrograms \cup {Placeholder(l) : l \in Languages}

\* What executing source text c as language lang does: the logging calls it
\* makes and how it ends.  A placeholder is a comment in its own language and
\* a syntax error in the other one.
Exec(c, lang) ==
    IF c.src # "user" /\ c.src # Placeholder(lang).src
    THEN [calls |-> <<>>, end |-> "throwError", message |-> <<"SyntaxError">>]
    ELSE [calls |-> c.calls, end |-> c.end, message |-> <<"bad">>]

\* String(value) of the value a source text returns.
StringForm(end) ==
    CASE end = "value" -> <<"42">>
      [] end = "symbol" -> <<"Symbol(x)">>
      [] OTHER -> <<"undefined">>

SymbolTypeError == <<"Cannot convert a Symbol value to a string">>

\* --------------------------------------------------------- pure helpers

\* Array.prototype.join: the strings of strs with sep between them.
RECURSIVE Join(_, _)
Join(strs, sep) ==
    IF strs = <<>> THEN <<>>
    ELSE IF Len(strs) = 1 THEN strs[1]
    ELSE strs[1] \o sep \o Join(Tail(strs), sep)

IsSpace(atom) == atom \in {" ", "\n"}

RECURSIVE TrimStart(_)
TrimStart(s) ==
    IF s # <<>> /\ IsSpace(Head(s)) THEN TrimStart(Tail(s)) ELSE s

RECURSIVE TrimEnd(_)
TrimEnd(s) ==
    IF s # <<>> /\ IsSpace(s[Len(s)]) THEN TrimEnd(SubSeq(s, 1, Len(s) - 1)) ELSE s

\* String.prototype.trim
Trim(s) == TrimEnd(TrimStart(s))

\* One argument of a captured console.log call.
FormatArg(arg) == IF arg.type = "object" THEN arg.json ELSE arg.str

\* The line the capture override pushes for one console.log call.
CaptureLine(call) ==
    Join([i \in 1..Len(call) |-> FormatArg(call[i])], <<" ">>)

\* What Python's print writes to sys.stdout for one call.
PrintLine(call) ==
    Join([i \in 1..Len(call) |-> call[i].str], <<" ">>) \o <<"\n">>

\* An Error object with a message, a thrown value that is no Error, or none.
ErrorObject(msg) == [kind |-> "Error", message |-> msg]

NonError == [kind |-> "value", message |-> <<"undefined">>]

NoError == [kind |-> "none", message |-> <<>>]

Thrown(ex) == IF ex.end = "throwError" THEN ErrorObject(ex.message) ELSE NonError

Throws(ex) == ex.end \in {"throwError", "throwValue"}

\* "\n=> " + result: the suffix for a returned value, when it has one.
ResultSuffix(end) == IF end # "undefined" THEN ResultMarker \o StringForm(end) ELSE <<>>

\* The record of a run nothing has made yet.
NoRun ==
    [id |-> 0, path |-> "none", sinkAtStart |-> NativeLog, stdoutAtStart |-> OrigStdout,
     raised |-> "none", error |-> NoError, end |-> "undefined",
     logged |-> <<>>, wrote |-> <<>>, captured |-> <<>>,
     vmCalls |-> 0, sinkInstalled |-> FALSE]

\* -------------------------------------------------- Strategy A (JavaScript)

\* The body of the javascript branch.  thrown: whether an error leaves the
\* branch; out: the output it set; sink, stdout: console.log and sys.stdout
\* when it is left.
StrategyA ==
    LET ex == Exec(code, "javascript")
        originalConsoleLog == consoleLog
        override == runs + 1
        logs == [i \in 1..Len(ex.calls) |-> CaptureLine(ex.calls[i])]
        info == [NoRun EXCEPT !.id = runs + 1, !.path = "A",
                              !.sinkAtStart = consoleLog, !.stdoutAtStart = pyStdout,
                              !.end = ex.end, !.logged = logs, !.sinkInstalled = TRUE]
    IN  IF Throws(ex)
        THEN \* new Function(code)() throws: the restore and setOutput are skipped
             [thrown |-> TRUE, error |-> Thrown(ex), out |-> <<>>,
              sink |-> override, stdout |-> pyStdout,
              info |-> [info EXCEPT !.raised = "code", !.error = Thrown(ex)]]
        ELSE IF ex.end = "symbol"
        THEN \* restored, then "\n=> " + result throws a TypeError
             [thrown |-> TRUE, error |-> ErrorObject(SymbolTypeError), out |-> <<>>,
              sink |-> originalConsoleLog, stdout |-> pyStdout,
              info |-> [info EXCEPT !.raised = "compose",
                                    !.error = ErrorObject(SymbolTypeError)]]
        ELSE [thrown |-> FALSE, error |-> NoError,
              out |-> Join(logs, <<"\n">>) \o ResultSuffix(ex.end),
              sink |-> originalConsoleLog, stdout |-> pyStdout,
              info |-> info]

\* ------------------------------------------------------ Strategy B (Python)

\* Mutant of RedirectStdout: the stream is redirected only when it is still at
\* its original target, so a buffer an earlier run left behind is reused.
RedirectStdoutOnce(id) ==
    IF pyStdout.target = "StringIO" THEN pyStdout
    ELSE [target |-> "StringIO", owner |-> id, text |-> <<>>]

\* sys.stdout = io.StringIO(): a fresh empty buffer, owned by run id.
RedirectStdout(id) == [target |-> "StringIO", owner |-> id, text |-> <<>>]

\* sys.stdout.getvalue()
GetValue(stream) == stream.text

\* sys.stdout = sys.__stdout__
RestoreStdout == OrigStdout

\* setOutput(`Error: ${error.message}`) of the inner catch.
InnerCatch(error) == ErrorPrefix \o error.message

\* Mutant of NotReady: the loading flag is tested instead of the handle.
NotReadyWhileLoading == isLoading

\* if (!pyodide)
NotReady == pyodide = NoHandle

\* The not-ready branch: the waiting message, and return.
NotReadyBranch ==
    [thrown |-> FALSE, error |-> NoError, out |-> WaitingMessage,
     sink |-> consoleLog, stdout |-> pyStdout,
     info |-> [NoRun EXCEPT !.id = runs + 1, !.path = "B-notready",
                            !.sinkAtStart = consoleLog, !.stdoutAtStart = pyStdout]]

\* The inner try/catch of the python branch.
ReadyBranch ==
    LET ex == Exec(code, "python")
        id == runs + 1
        redirected == RedirectStdout(id)
        text == Join([i \in 1..Len(ex.calls) |-> PrintLine(ex.calls[i])], <<>>)
        written == [redirected EXCEPT !.text = @ \o text]
        stdout == GetValue(written)
        info == [NoRun EXCEPT !.id = id, !.path = "B",
                              !.sinkAtStart = consoleLog, !.stdoutAtStart = pyStdout,
                              !.end = ex.end, !.wrote = text]
        nullError == ErrorObject(<<"Cannot read properties of null (reading 'runPython')">>)
    IN  IF pyodide = NoHandle
        THEN \* pyodide.runPython on an absent handle
             [thrown |-> FALSE, error |-> NoError, out |-> InnerCatch(nullError),
              sink |-> consoleLog, stdout |-> pyStdout,
              info |-> [info EXCEPT !.raised = "code", !.error = nullError, !.wrote = <<>>]]
        ELSE IF Throws(ex)
        THEN \* runPython(code) throws: getvalue and the reset are skipped
             [thrown |-> FALSE, error |-> NoError, out |-> InnerCatch(Thrown(ex)),
              sink |-> consoleLog, stdout |-> written,
              info |-> [info EXCEPT !.raised = "code", !.error = Thrown(ex), !.vmCalls = 2]]
        ELSE IF ex.end = "symbol"
        THEN \* stdout is reset, then `\n=> ${result}` throws a TypeError
             [thrown |-> FALSE, error |-> NoError,
              out |-> InnerCatch(ErrorObject(SymbolTypeError)),
              sink |-> consoleLog, stdout |-> RestoreStdout,
              info |-> [info EXCEPT !.raised = "compose",
                                    !.error = ErrorObject(SymbolTypeError),
                                    !.captured = stdout, !.vmCalls = 4]]
        ELSE [thrown |-> FALSE, error |-> NoError,
              out |-> Trim(stdout \o ResultSuffix(ex.end)),
              sink |-> consoleLog, stdout |-> RestoreStdout,
              info |-> [info EXCEPT !.captured = stdout, !.vmCalls = 4]]

StrategyB == IF NotReady THEN NotReadyBranch ELSE ReadyBranch

\* The outer catch: the message of an Error, the fallback for anything else.
OuterCatch(error) ==
    IF error.kind = "Error" THEN ErrorPrefix \o error.message ELSE UnknownErrorMessage

\* ------------------------------------------------------------------ state

Init ==
    /\ code = Placeholder("javascript")
    /\ language = "javascript"
    /\ output = <<>>
    /\ pyodide = NoHandle
    /\ isLoading = FALSE
    /\ bootPc = "mount"
    /\ bootAttempts = 0
    /\ bootResult = "pending"
    /\ consoleLog = NativeLog
    /\ pyStdout = OrigStdout
    /\ runs = 0
    /\ lastRun = NoRun
    /\ lastEvent = [op |-> "mount", arg |-> "none"]

session == <<code, language, output>>

sinks == <<consoleLog, pyStdout, runs, lastRun>>

\* ------------------------------------------------------------ bootstrap

\* The mount effect: setIsLoading(true) and the call of loadPyodide.
initPyodide ==
    /\ bootPc = "mount"
    /\ isLoading' = TRUE
    /\ bootAttempts' = bootAttempts + 1
    /\ bootPc' = "loading"
    /\ lastEvent' = [op |-> "boot", arg |-> "start"]
    /\ UNCHANGED <<session, sinks, pyodide, bootResult>>

\* loadPyodide resolves: setPyodide(pyodideInstance).
loadResolved ==
    /\ bootPc = "loading"
    /\ pyodide' = PyodideInstance
    /\ bootResult' = "ok"
    /\ bootPc' = "finally"
    /\ lastEvent' = [op |-> "boot", arg |-> "resolved"]
    /\ UNCHANGED <<session, sinks, isLoading, bootAttempts>>

\* Mutant of loadRejected: a failed load is started over.
loadRejectedRetries ==
    /\ bootPc = "loading"
    /\ bootResult' = "failed"
    /\ isLoading' = FALSE
    /\ bootPc' = "mount"
    /\ lastEvent' = [op |-> "boot", arg |-> "rejected"]
    /\ UNCHANGED <<session, sinks, pyodide, bootAttempts>>

\* loadPyodide rejects: console.error, the handle stays absent.
loadRejected ==
    /\ bootPc = "loading"
    /\ bootResult' = "failed"
    /\ bootPc' = "finally"
    /\ lastEvent' = [op |-> "boot", arg |-> "rejected"]
    /\ UNCHANGED <<session, sinks, pyodide, isLoading, bootAttempts>>

\* finally: setIsLoading(false).
initFinally ==
    /\ bootPc = "finally"
    /\ isLoading' = FALSE
    /\ bootPc' = "done"
    /\ lastEvent' = [op |-> "boot", arg |-> "finally"]
    /\ UNCHANGED <<session, sinks, pyodide, bootResult, bootAttempts>>

\* An event handler runs only between the turns of the bootstrap: after the
\* mount effect, and not inside the continuation of the awaited load.
UserTurn == bootPc \in {"loading", "done"}

\* ---------------------------------------------------------- run handler

\* The disabled attribute of the run button.
runDisabled == language = "python" /\ (isLoading \/ pyodide = NoHandle)

\* The condition under which the run button is styled as not available.
runStyledDisabled == isLoading \/ (language = "python" /\ pyodide = NoHandle)

\* handleRunCode: clear the output, dispatch on the language, contain errors.
handleRunCode ==
    /\ runs < MaxRuns
    /\ LET body == IF language = "javascript" THEN StrategyA ELSE StrategyB
       IN  /\ output' = IF body.thrown THEN OuterCatch(body.error) ELSE body.out
           /\ consoleLog' = body.sink
           /\ pyStdout' = body.stdout
           /\ lastRun' = body.info
    /\ runs' = runs + 1
    /\ lastEvent' = [op |-> "run", arg |-> language]
    /\ UNCHANGED <<code, language, pyodide, isLoading, bootPc, bootAttempts, bootResult>>

\* onClick of the run button, which fires only when the button is enabled.
clickRun == UserTurn /\ ~runDisabled /\ handleRunCode

\* The handler invoked while the button is disabled: the disabled attribute is
\* the only guard and lives outside the handler, whose own not-ready branch
\* answers such a call.
directRun == UserTurn /\ runDisabled /\ handleRunCode

\* ------------------------------------------------------ other handlers

\* Mutant of handleLanguageChange: the output is not cleared.
handleLanguageChangeKeepsOutput(newLanguage) ==
    /\ UserTurn
    /\ language' = newLanguage
    /\ code' = Placeholder(newLanguage)
    /\ lastEvent' = [op |-> "languageChange", arg |-> newLanguage]
    /\ UNCHANGED <<output, sinks, pyodide, isLoading, bootPc, bootAttempts, bootResult>>

\* handleLanguageChange: setLanguage, setCode(placeholder), setOutput("").
handleLanguageChange(newLanguage) ==
    /\ UserTurn
    /\ language' = newLanguage
    /\ code' = Placeholder(newLanguage)
    /\ output' = <<>>
    /\ lastEvent' = [op |-> "languageChange", arg |-> newLanguage]
    /\ UNCHANGED <<sinks, pyodide, isLoading, bootPc, bootAttempts, bootResult>>

\* onChange of the editor: setCode(e.target.value).
setCode(text) ==
    /\ UserTurn
    /\ code' = text
    /\ lastEvent' = [op |-> "edit", arg |-> "none"]
    /\ UNCHANGED <<language, output, sinks, pyodide, isLoading,
                   bootPc, bootAttempts, bootResult>>

\* ---------------------------------------------------------- specifications

Next ==
    \/ initPyodide
    \/ loadResolved
    \/ loadRejected
    \/ initFinally
    \/ clickRun
    \/ \E newLanguage \in Languages : handleLanguageChange(newLanguage)
    \/ \E text \in SourceTexts : setCode(text)

\* The session as the user interface drives it.
Spec == Init /\ [][Next]_vars

NextDirect == Next \/ directRun

\* The session with the handler also called while its button is disabled.
SpecDirect == Init /\ [][NextDirect]_vars

TypeOK ==
    /\ code \in SourceTexts
    /\ language \in Languages
    /\ pyodide \in {NoHandle, PyodideInstance}
    /\ isLoading \in BOOLEAN
    /\ bootPc \in {"mount", "loading", "finally", "done"}
    /\ bootAttempts \in 0..1
    /\ bootResult \in {"pending", "ok", "failed"}
    /\ consoleLog \in 0..MaxRuns
    /\ runs \in 0..MaxRuns
    /\ pyStdout.target \in {"__stdout__", "StringIO"}

\* ------------------------------------------------------------------ claims

\* C1: isLoading and the presence of the runtime handle are never both true,
\* in any state of the session, the states between the bootstrap's own state
\* updates included.
C1_LoadingExcludesReady == ~(isLoading /\ pyodide # NoHandle)

\* C2: whenever the last finished run was a JavaScript run, console.log is
\* the sink that was installed when that run started, whether the executed
\* code returned or raised.
C2_SinkRestoredAfterRun ==
    lastRun.path = "A" => consoleLog = lastRun.sinkAtStart

\* C3: the run button is disabled in every state in which the runtime is
\* loading, whichever language is selected, and in every state in which
\* python is selected and the handle is absent.
C3_RunDisabledDuringBootstrap ==
    /\ isLoading => runDisabled
    /\ (language = "python" /\ pyodide = NoHandle) => runDisabled

\* C4: right after a run in which an error was raised (by the executed code
\* or while composing the output), in either language, the output is
\* "Error: " followed by the error's message when the raised value is an
\* Error, and "An unknown error occurred" when it is not.
C4_ErrorsRendered ==
    (lastEvent.op = "run" /\ lastRun.raised # "none") =>
        output = IF lastRun.error.kind = "Error"
                 THEN <<"Error: ">> \o lastRun.error.message
                 ELSE <<"An unknown error occurred">>

\* C5: one bootstrap attempt is started, at mount, and no other; once
\* initPyodide has finished, isLoading stays false and the handle stays what
\* it is: absent after a failure, the loaded instance after a success.
C5_BootstrapOneShot ==
    [][ /\ bootAttempts' <= 1
        /\ bootPc' # "mount" => bootAttempts' = 1
        /\ bootPc = "done" =>
              /\ bootPc' = "done"
              /\ isLoading' = FALSE
              /\ pyodide' = pyodide
              /\ bootResult' = bootResult
              /\ bootResult = "failed" => pyodide' = "null"
              /\ bootResult = "ok" => pyodide' = "pyodideInstance" ]_vars

\* C5 witness: the bootstrap failed and finished, and since then the handler
\* has run and python has been selected.
C5_Witness ==
    /\ bootPc = "done" /\ bootResult = "failed"
    /\ runs >= 1 /\ lastRun.id >= 1
    /\ lastEvent = [op |-> "languageChange", arg |-> "python"]

\* C6: right after a JavaScript run whose code did not raise, the output is
\* the lines of its logging calls joined by newlines, followed by "\n=> " and
\* the returned value's string form exactly when a value other than undefined
\* was returned.
C6_OutputOfJavaScriptRun ==
    (lastEvent.op = "run" /\ lastRun.path = "A" /\ lastRun.raised # "code") =>
        output = Join(lastRun.logged, <<"\n">>)
                 \o (IF lastRun.end # "undefined"
                     THEN <<"\n", "=>", " ">> \o StringForm(lastRun.end)
                     ELSE <<>>)

\* C7: a step of the run handler taken with python selected and the handle
\* absent sets the output to the waiting message, calls the VM not once, and
\* leaves sys.stdout and console.log as they were.
C7_NotReadyRun ==
    [][ (runs' = runs + 1 /\ language = "python" /\ pyodide = "null") =>
            /\ output' = <<"Python runtime is not ready yet. Please wait...">>
            /\ lastRun'.vmCalls = 0
            /\ ~lastRun'.sinkInstalled
            /\ pyStdout' = pyStdout
            /\ consoleLog' = consoleLog ]_vars

\* C7 witness: the handler has just run with python selected, the handle
\* absent and a source text that prints.
C7_Witness ==
    /\ lastEvent = [op |-> "run", arg |-> "python"]
    /\ pyodide = "null"
    /\ code.src = "user" /\ Len(code.calls) > 0

\* C8: a language selection sets the language to the selected one, the source
\* text to that language's placeholder and the output to empty, and leaves the
\* handle and isLoading as they were.
C8_LanguageSwitch ==
    [][ lastEvent'.op = "languageChange" =>
            /\ language' = lastEvent'.arg
            /\ code'.src = (IF lastEvent'.arg = "python"
                            THEN "# Start coding here..."
                            ELSE "// Start coding here...")
            /\ output' = <<>>
            /\ pyodide' = pyodide
            /\ isLoading' = isLoading ]_vars

\* C8 witness: python has just been selected while the bootstrap is in flight
\* and after a JavaScript run that raised and left its output.
C8_Witness ==
    /\ lastEvent = [op |-> "languageChange", arg |-> "python"]
    /\ bootPc = "loading"
    /\ lastRun.path = "A" /\ lastRun.raised = "code"

\* C9: whenever the last finished run was a JavaScript run that did not
\* raise, console.log is the native sink of before the session's first run.
C9_NativeSinkAfterCleanRun ==
    (lastRun.path = "A" /\ lastRun.raised = "none") => consoleLog = 0

====
